---- MODULE Spec2Model ----
(***************************************************************************)
(* Model of the Users table and of the /api/users route handlers.          *)
(*                                                                         *)
(* Strings that take part in begins_with or in the sort order (sk,         *)
(* skPrefix, detailType, activityType) are sequences of tokens.  The token *)
(* alphabet is prefix free ("#", "a", "b", the kind names, one token per   *)
(* fixed-width ISO timestamp), so prefix and lexicographic order on token  *)
(* sequences agree with prefix and byte order on the strings they spell.   *)
(* An item is a function from the attribute names it carries to values.    *)
(***************************************************************************)
EXTENDS Integers, Sequences, FiniteSets, TLC

VARIABLES
    table,   \* the items of the Users table
    index,   \* the <<sk, userId>> entries of SKIndex
    now,     \* the clock, in ticks
    req,     \* the request being answered, NoRequest between requests
    resp,    \* the response to req
    old,     \* what the table held under the key req addresses, before req
    pending, \* the UpdateCommands of update handlers that run concurrently
    db,      \* whether the table exists and the status of TTL on it
    setup,   \* the run of scripts/setup-dynamo.ts, if any
    ui       \* the DynamoDemo component: loading and its requests in flight

\* what the route handlers and the database's own steps leave alone
env == <<db, setup, ui>>

vars == <<table, index, now, req, resp, old, pending, db, setup, ui>>

\* ---- bounds -------------------------------------------------------------
MaxTime == 1
MaxItems == 2
MaxLag == 1
MaxInflight == 2
MaxRuns == 2
MaxRequests == 2
MaxClock == 2
TicksPerSec == 2

\* ---- input universes ----------------------------------------------------
Users == {"u1", "u2"}
SubTypes == {<<"a">>, <<"a", "b">>}
Undefined == "undefined"
TtlInputs == {Undefined, "-1", "abc"}

\* ---- time ---------------------------------------------------------------
\* new Date().toISOString(): one fixed-width token per clock value
ISOString(t) == ToString(t)

\* Math.floor(Date.now() / 1000)
NowSec(t) == t \div TicksPerSec

calculateTTL(secondsFromNow, t) == NowSec(t) + secondsFromNow

\* parseInt / isNaN on the ttl inputs of the model
IsNaNTtl(s) == s \notin {"1", "-1"}
ParseInt(s) == IF s = "1" THEN 1 ELSE IF s = "-1" THEN 0 - 1 ELSE 0

\* JavaScript truthiness of a ttl input (undefined, null and "" are falsy)
Truthy(s) == s \notin {Undefined, "null", ""}

\* ---- sort keys ----------------------------------------------------------
PROFILE == "PROFILE"
DETAIL == "DETAIL"
ACTIVITY == "ACTIVITY"

generateSortKey(itemType, secondaryType, t) ==
    IF itemType = PROFILE
    THEN <<PROFILE, "#", ISOString(t)>>
    ELSE <<itemType, "#">>
         \o (IF secondaryType = <<>> THEN <<"DEFAULT">> ELSE secondaryType)
         \o <<"#", ISOString(t)>>

\* byte order of the tokens: '#' < digits < upper case < lower case
Rank(tok) ==
    IF tok = "#" THEN 0
    ELSE IF \E n \in 0..9 : ToString(n) = tok
         THEN 1 + (CHOOSE n \in 0..9 : ToString(n) = tok)
    ELSE IF tok = ACTIVITY THEN 20
    ELSE IF tok = "DEFAULT" THEN 21
    ELSE IF tok = DETAIL THEN 22
    ELSE IF tok = PROFILE THEN 23
    ELSE IF tok = "a" THEN 30
    ELSE IF tok = "b" THEN 31
    ELSE IF tok = "g1" THEN 40
    ELSE IF tok = "u1" THEN 41
    ELSE 42

\* begins_with(s, p)
BeginsWith(s, p) ==
    /\ Len(p) <= Len(s)
    /\ \A i \in 1..Len(p) : s[i] = p[i]

\* s sorts strictly before r
StrLess(s, r) ==
    \/ Len(s) < Len(r) /\ BeginsWith(r, s)
    \/ \E i \in 1..Len(s) :
          /\ i <= Len(r)
          /\ \A j \in 1..(i - 1) : s[j] = r[j]
          /\ Rank(s[i]) < Rank(r[i])

Range(seq) == {seq[i] : i \in 1..Len(seq)}

\* ---- the table as the database keeps it ---------------------------------
KeyOf(item) == <<item.userId, item.sk>>

ItemsAt(t, userId, sk) == {i \in t : i.userId = userId /\ i.sk = sk}

Has(item, attr) == attr \in DOMAIN item

Remove(item, attrs) == [a \in (DOMAIN item) \ attrs |-> item[a]]

\* the attributes of the model whose values are strings
StringAttrs == {"name", "email", "description", "ttl"}

Null == "null"

\* marshallOptions.convertEmptyValues: an empty string is stored as NULL
Marshall(item) ==
    [a \in DOMAIN item |->
        IF a \in StringAttrs /\ item[a] = "" THEN Null ELSE item[a]]

\* the ValidationException the database answers a put with, "" if none: a
\* key attribute must not be empty
PutException(item) ==
    IF item.userId = "" \/ item.sk = <<>> THEN "EmptyKey" ELSE ""

\* a put that adds the item beside the one stored under its key
PutItemAppend(t, item) == t \cup {item}

\* a put that keeps the attributes of the stored item the new one lacks
PutItemMerge(t, item) ==
    {i \in t : KeyOf(i) # KeyOf(item)}
    \cup {item @@ o : o \in {i \in t : KeyOf(i) = KeyOf(item)}}
    \cup (IF \E i \in t : KeyOf(i) = KeyOf(item) THEN {} ELSE {item})

\* PutCommand: the item replaces whatever is stored under its key
PutItem(t, item) ==
    {i \in t : KeyOf(i) # KeyOf(item)} \cup {item}

\* a get that hides an item whose expiresAt has passed
GetItemLive(t, userId, sk) ==
    {i \in ItemsAt(t, userId, sk) :
        ~(Has(i, "expiresAt") /\ i.expiresAt < NowSec(now))}

\* GetCommand: the stored item, or nothing
GetItem(t, userId, sk) == ItemsAt(t, userId, sk)

\* a delete that takes the whole partition with it
DeleteItemOfUser(t, userId, sk) == {i \in t : i.userId # userId}

\* DeleteCommand without condition: succeeds whether or not the key exists
DeleteItem(t, userId, sk) == t \ ItemsAt(t, userId, sk)

RECURSIVE SortBySk(_)
SortBySk(S) ==
    IF S = {} THEN <<>>
    ELSE LET m == CHOOSE x \in S : \A y \in S : ~StrLess(y.sk, x.sk)
         IN <<m>> \o SortBySk(S \ {m})

\* SKIndex: HASH key sk, RANGE key userId
IndexKey(item) == <<item.sk, item.userId>>

RECURSIVE SortByIndexKey(_)
SortByIndexKey(S) ==
    IF S = {} THEN <<>>
    ELSE LET m == CHOOSE x \in S : \A y \in S :
                     /\ ~StrLess(y.sk, x.sk)
                     /\ (y.sk = x.sk => ~StrLess(<<y.userId>>, <<x.userId>>))
         IN <<m>> \o SortByIndexKey(S \ {m})

\* a query that forgets the partition key condition
QueryUserItemsAnyUser(t, userId, skPrefix) ==
    SortBySk({i \in t : skPrefix # <<>> => BeginsWith(i.sk, skPrefix)})

\* QueryCommand on the table: userId = :userId [AND begins_with(sk, :skPrefix)]
QueryUserItems(t, userId, skPrefix) ==
    SortBySk({i \in t : /\ i.userId = userId
                        /\ (skPrefix # <<>> => BeginsWith(i.sk, skPrefix))})

\* ScanCommand: every item of the table; the order is the database's choice
RECURSIVE Orders(_)
Orders(S) ==
    IF S = {} THEN {<<>>}
    ELSE UNION {{<<x>> \o rest : rest \in Orders(S \ {x})} : x \in S}

ScanTable(t) == Orders(t)

\* words the database refuses as bare attribute names in an expression
ReservedWords == {"name"}

\* the attributes an expression names more than once
Overlapping(exprs) ==
    {a \in {exprs[i].attr : i \in 1..Len(exprs)} :
        Cardinality({i \in 1..Len(exprs) : exprs[i].attr = a}) > 1}

\* the ValidationException the database answers an update with, "" if none
UpdateException(exprs) ==
    IF \E i \in 1..Len(exprs) : exprs[i].attr \in ReservedWords
    THEN "ReservedKeyword"
    ELSE IF \E i \in 1..Len(exprs) : exprs[i].attr \in {"userId", "sk"}
    THEN "KeyAttribute"
    ELSE IF Overlapping(exprs) # {} THEN "PathsOverlap"
    ELSE ""

\* an update that writes the key and the SET attributes in place of the item
UpdatedItemFromKey(t, userId, sk, exprs, values) ==
    [a \in {exprs[i].attr : i \in {j \in 1..Len(exprs) : exprs[j].kind = "SET"}}
        |-> values[a]] @@ [userId |-> userId, sk |-> sk]

\* UpdateCommand without condition, ReturnValues ALL_NEW: the item under the
\* key, or a new item holding only the key, with the REMOVE attributes
\* dropped and the SET attributes assigned
UpdatedItem(t, userId, sk, exprs, values) ==
    LET base == IF ItemsAt(t, userId, sk) = {}
                THEN [userId |-> userId, sk |-> sk]
                ELSE CHOOSE i \in ItemsAt(t, userId, sk) : TRUE
        sets == {exprs[i].attr : i \in {j \in 1..Len(exprs) : exprs[j].kind = "SET"}}
        rems == {exprs[i].attr : i \in {j \in 1..Len(exprs) : exprs[j].kind = "REMOVE"}}
    IN [a \in sets |-> values[a]] @@ Remove(base, rems)

\* an update that answers with the new item and stores nothing
UpdateItemNoWrite(t, userId, sk, exprs, values) == t

UpdateItem(t, userId, sk, exprs, values) ==
    PutItem(t, UpdatedItem(t, userId, sk, exprs, values))

\* ---- responses ----------------------------------------------------------
Ok(items) == [status |-> 200, error |-> "", cause |-> "", items |-> items]
Err(status, msg) ==
    [status |-> status, error |-> msg, cause |-> "", items |-> <<>>]
\* the catch block: the database's exception is logged, the client gets 500
Caught(msg, exception) ==
    [status |-> 500, error |-> msg, cause |-> exception, items |-> <<>>]
NoResp == [status |-> 0, error |-> "", cause |-> "", items |-> <<>>]

Out(t, r) == [t |-> t, r |-> r]

MissingKey == "Missing required fields: userId and sk"
MissingUser == "Missing required field: userId"
BadTtl == "TTL must be a valid number of seconds"
Failed == "Failed to process request"

\* ---- lib/dynamodb.ts ----------------------------------------------------
\* createUserProfile: the item as it is put and returned
createUserProfile(item, clock) ==
    [sk |-> IF Has(item, "sk") THEN item.sk
            ELSE generateSortKey(PROFILE, <<>>, clock),
     itemType |-> PROFILE,
     createdAt |-> clock] @@ item

\* ---- POST /api/users ----------------------------------------------------
\* a createProfile that checks the ttl only after it has put the item
HandleCreateProfileLateCheck(t, r, uuid, clock) ==
    IF r.name = "" THEN Out(t, Err(400, "Missing required field: name"))
    ELSE
      LET item == createUserProfile(
                      [userId |-> IF r.userId # "" THEN r.userId ELSE uuid,
                       name |-> r.name, createdAt |-> clock]
                      @@ (IF r.sk # <<>> THEN [sk |-> r.sk] ELSE <<>>), clock)
      IN IF Truthy(r.ttl) /\ IsNaNTtl(r.ttl)
         THEN Out(PutItem(t, Marshall(item)), Err(400, BadTtl))
         ELSE Out(PutItem(t, Marshall(item)), Ok(<<item>>))

\* case "createProfile"; uuid is the value uuidv4() returns
HandleCreateProfile(t, r, uuid, clock) ==
    IF r.name = "" THEN Out(t, Err(400, "Missing required field: name"))
    ELSE IF Truthy(r.ttl) /\ IsNaNTtl(r.ttl) THEN Out(t, Err(400, BadTtl))
    ELSE
      LET userProfile ==
              [userId |-> IF r.userId # "" THEN r.userId ELSE uuid,
               name |-> r.name, createdAt |-> clock]
              @@ (IF r.sk # <<>> THEN [sk |-> r.sk] ELSE <<>>)
              @@ (IF r.email # Undefined THEN [email |-> r.email] ELSE <<>>)
              @@ (IF Truthy(r.ttl)
                  THEN [expiresAt |-> calculateTTL(ParseInt(r.ttl), clock)]
                  ELSE <<>>)
          item == createUserProfile(userProfile, clock)
      IN IF PutException(item) # ""
         THEN Out(t, Caught(Failed, PutException(item)))
         ELSE Out(PutItem(t, Marshall(item)), Ok(<<item>>))

\* addUserDetail / addUserActivity: the spread of data overrides the
\* generated attributes, createdAt overrides data
AddUserItem(kind, typeAttr, userId, subType, data, clock) ==
    [createdAt |-> clock]
    @@ data
    @@ (typeAttr :> subType)
    @@ [userId |-> userId,
        sk |-> generateSortKey(kind, subType, clock),
        itemType |-> kind]

\* case "addDetail" and case "addActivity"
HandleAdd(t, r, kind, typeAttr, clock) ==
    IF r.userId = "" THEN Out(t, Err(400, MissingUser))
    ELSE IF r.subType = <<>>
    THEN Out(t, Err(400, "Missing required field: " \o typeAttr))
    ELSE IF Truthy(r.ttl) /\ IsNaNTtl(r.ttl) THEN Out(t, Err(400, BadTtl))
    ELSE
      LET data == (IF Truthy(r.ttl)
                   THEN [expiresAt |-> calculateTTL(ParseInt(r.ttl), clock)]
                   ELSE <<>>)
                  @@ (IF r.ttl # Undefined THEN [ttl |-> r.ttl] ELSE <<>>)
                  @@ r.body
          item == AddUserItem(kind, typeAttr, r.userId, r.subType, data, clock)
      IN IF PutException(item) # ""
         THEN Out(t, Caught(Failed, PutException(item)))
         ELSE Out(PutItem(t, Marshall(item)), Ok(<<item>>))

\* case "get"
HandleGet(t, r) ==
    IF r.userId = "" \/ r.sk = <<>> THEN Out(t, Err(400, MissingKey))
    ELSE IF GetItem(t, r.userId, r.sk) = {} THEN Out(t, Err(404, "Item not found"))
    ELSE Out(t, Ok(<<CHOOSE i \in GetItem(t, r.userId, r.sk) : TRUE>>))

\* case "queryUser"
HandleQueryUser(t, r) ==
    IF r.userId = "" THEN Out(t, Err(400, MissingUser))
    ELSE Out(t, Ok(QueryUserItems(t, r.userId, r.skPrefix)))

\* queryBySortKey: a Query on SKIndex whose only key condition is
\* begins_with on the index's HASH key; the database accepts only an
\* equality on the HASH key and rejects the request
QueryBySortKeyRejected == TRUE

\* what the entries of SKIndex with a matching sk would yield
QueryBySortKey(t, idx, skPrefix) ==
    SortByIndexKey({i \in t : IndexKey(i) \in idx /\ BeginsWith(i.sk, skPrefix)})

\* case "queryBySort"
HandleQueryBySort(t, idx, r) ==
    IF r.skPrefix = <<>> THEN Out(t, Err(400, "Missing required field: skPrefix"))
    ELSE IF QueryBySortKeyRejected
    THEN Out(t, Caught(Failed, "KeyConditionNotSupported"))
    ELSE Out(t, Ok(QueryBySortKey(t, idx, r.skPrefix)))

\* a delete that sends the key to the database unchecked
HandleDeleteNoCheck(t, r) == Out(DeleteItem(t, r.userId, r.sk), Ok(<<>>))

\* case "delete"
HandleDelete(t, r) ==
    IF r.userId = "" \/ r.sk = <<>> THEN Out(t, Err(400, MissingKey))
    ELSE Out(DeleteItem(t, r.userId, r.sk), Ok(<<>>))

\* a missing operation, and the default case of the switch
HandleOther(t, r) ==
    IF r.op = "" THEN Out(t, Err(400, "Missing required field: operation"))
    ELSE Out(t, Err(400, "Invalid operation"))

\* case "update": the entries of data, in the order of Object.entries
FieldOrder ==
    <<"userId", "sk", "name", "email", "age", "description", "expiresAt",
      "createdAt">>

\* data: the request body without operation and, by now, without ttl
Data(r) == [userId |-> r.userId, sk |-> r.sk] @@ r.body

\* a loop that lets the sort key through
UpdateFieldsWithKey(r) ==
    SelectSeq(FieldOrder, LAMBDA f :
        f \in DOMAIN Data(r) /\ f \notin {"userId", "operation"})

\* the keys of data the forEach pushes a clause for
UpdateFields(r) ==
    SelectSeq(FieldOrder, LAMBDA f :
        f \in DOMAIN Data(r) /\ f \notin {"userId", "sk", "operation"})

\* a builder that drops a body field the ttl branch has already handled
UpdateExpressionsDedup(r) ==
    (IF r.ttl = Undefined THEN <<>>
     ELSE IF r.ttl \in {"null", ""}
          THEN <<[kind |-> "REMOVE", attr |-> "expiresAt"]>>
          ELSE <<[kind |-> "SET", attr |-> "expiresAt"]>>)
    \o [i \in 1..Len(SelectSeq(UpdateFields(r), LAMBDA f :
              r.ttl = Undefined \/ f # "expiresAt")) |->
          [kind |-> "SET",
           attr |-> SelectSeq(UpdateFields(r), LAMBDA f :
              r.ttl = Undefined \/ f # "expiresAt")[i]]]
    \o <<[kind |-> "SET", attr |-> "updatedAt"]>>

UpdateExpressions(r) ==
    (IF r.ttl = Undefined THEN <<>>
     ELSE IF r.ttl \in {"null", ""}
          THEN <<[kind |-> "REMOVE", attr |-> "expiresAt"]>>
          ELSE <<[kind |-> "SET", attr |-> "expiresAt"]>>)
    \o [i \in 1..Len(UpdateFields(r)) |->
          [kind |-> "SET", attr |-> UpdateFields(r)[i]]]
    \o <<[kind |-> "SET", attr |-> "updatedAt"]>>

\* expressionAttributeValues: a body field overwrites the computed :expiresAt
ExpressionAttributeValues(r, clock) ==
    [updatedAt |-> clock]
    @@ [f \in Range(UpdateFields(r)) |-> Data(r)[f]]
    @@ (IF Truthy(r.ttl) /\ ~IsNaNTtl(r.ttl)
        THEN [expiresAt |-> calculateTTL(ParseInt(r.ttl), clock)]
        ELSE <<>>)

NoFields == "No fields to update provided"

\* a check that counts updatedAt among the fields to update
NothingToUpdateNever(r) == Len(UpdateExpressions(r)) = 0

\* updateExpressions.length === 1: only updatedAt was pushed
NothingToUpdate(r) == Len(UpdateExpressions(r)) = 1

HandleUpdate(t, r, clock) ==
    IF r.userId = "" \/ r.sk = <<>> THEN Out(t, Err(400, MissingKey))
    ELSE IF Truthy(r.ttl) /\ IsNaNTtl(r.ttl) THEN Out(t, Err(400, BadTtl))
    ELSE IF NothingToUpdate(r) THEN Out(t, Err(400, NoFields))
    ELSE IF UpdateException(UpdateExpressions(r)) # ""
    THEN Out(t, Caught(Failed, UpdateException(UpdateExpressions(r))))
    ELSE Out(UpdateItem(t, r.userId, r.sk, UpdateExpressions(r),
                        ExpressionAttributeValues(r, clock)),
             Ok(<<UpdatedItem(t, r.userId, r.sk, UpdateExpressions(r),
                              ExpressionAttributeValues(r, clock))>>))

\* ---- GET /api/users -----------------------------------------------------
\* a GET that looks at userId before it looks at queryType
HandleGETUserFirst(t, idx, r, scanOrder) ==
    IF r.userId # ""
    THEN Out(t, Ok(QueryUserItems(t, r.userId, r.skPrefix)))
    ELSE IF r.queryType = "bySort" /\ r.skPrefix # <<>>
    THEN Out(t, Caught("Failed to fetch data from DynamoDB",
                       "KeyConditionNotSupported"))
    ELSE Out(t, Ok(scanOrder))

\* scanOrder is the order in which the database returns a scan
HandleGET(t, idx, r, scanOrder) ==
    IF r.queryType = "bySort" /\ r.skPrefix # <<>>
    THEN IF QueryBySortKeyRejected
         THEN Out(t, Caught("Failed to fetch data from DynamoDB",
                            "KeyConditionNotSupported"))
         ELSE Out(t, Ok(QueryBySortKey(t, idx, r.skPrefix)))
    ELSE IF r.userId # ""
    THEN Out(t, Ok(QueryUserItems(t, r.userId, r.skPrefix)))
    ELSE Out(t, Ok(scanOrder))

\* ---- requests -----------------------------------------------------------
Request(op, userId, sk, skPrefix, subType, name, email, ttl, body) ==
    [op |-> op, userId |-> userId, sk |-> sk, skPrefix |-> skPrefix,
     subType |-> subType, name |-> name, email |-> email, ttl |-> ttl,
     body |-> body, queryType |-> "all"]

NoRequest == Request("none", "", <<>>, <<>>, <<>>, "", Undefined, Undefined, <<>>)

UUIDs == {"g1"}
ExplicitSKs == {<<PROFILE, "#", "0">>}
Prefixes == {<<>>, <<DETAIL>>, <<DETAIL, "#", "a">>, <<ACTIVITY, "#", "a">>}

\* the keys a client addresses: those stored, and keys that may be absent
Keys == {KeyOf(i) : i \in table} \cup {<<u, sk>> : u \in Users, sk \in ExplicitSKs}

UpdateBodies ==
    {[f \in S |-> IF f = "name" THEN "n2"
                  ELSE IF f = "email" THEN "e2" ELSE 7] :
        S \in {{}, {"name"}, {"email"}, {"expiresAt"}, {"createdAt"}}}

\* <<ttl, other body fields>> of the update requests
UpdateInputs ==
    {<<Undefined, b>> : b \in UpdateBodies}
    \cup {<<t, b>> : t \in {"null", "", "-1"},
                     b \in {x \in UpdateBodies : DOMAIN x \subseteq {"expiresAt"}}}
    \cup {<<"null", [email |-> "e2"]>>, <<"-1", [email |-> "e2"]>>,
          <<"abc", <<>>>>}

\* ---- actions ------------------------------------------------------------
Idle == req.op = "none"

\* a handler runs to its response; SKIndex follows the table later
Respond(r, out, key) ==
    /\ Idle
    /\ Cardinality(out.t) <= MaxItems
    /\ table' = out.t
    /\ req' = r
    /\ resp' = out.r
    /\ old' = ItemsAt(table, key[1], key[2])
    /\ UNCHANGED <<index, now, pending, env>>

NoKey == <<"", <<>>>>

\* the key of the item a create request answers with
CreatedKey(out) ==
    IF out.r.status = 200 THEN KeyOf(out.r.items[1]) ELSE NoKey

\* ---- request schemas: the handler run on inputs drawn from the sets ------
CreateProfileEmailWith(userIds, sks, names, emails, ttls) ==
    \E userId \in userIds, sk \in sks, name \in names, email \in emails,
       ttl \in ttls, uuid \in UUIDs :
        LET r == Request("createProfile", userId, sk, <<>>, <<>>, name,
                         email, ttl, <<>>)
        IN Respond(r, HandleCreateProfile(table, r, uuid, now),
                   CreatedKey(HandleCreateProfile(table, r, uuid, now)))

CreateProfileWith(userIds, sks, names, ttls) ==
    CreateProfileEmailWith(userIds, sks, names, {Undefined}, ttls)

\* bodies: the fields of the request besides userId, detailType and ttl
AddDetailDataWith(userIds, detailTypes, ttls, bodies) ==
    \E userId \in userIds, detailType \in detailTypes, ttl \in ttls,
       body \in bodies :
        LET r == Request("addDetail", userId, <<>>, <<>>, detailType, "",
                         Undefined, ttl, body)
        IN Respond(r, HandleAdd(table, r, DETAIL, "detailType", now),
                   CreatedKey(HandleAdd(table, r, DETAIL, "detailType", now)))

AddDetailWith(userIds, detailTypes, ttls) ==
    AddDetailDataWith(userIds, detailTypes, ttls, {<<>>})

AddActivityWith(userIds, activityTypes, ttls) ==
    \E userId \in userIds, activityType \in activityTypes, ttl \in ttls :
        LET r == Request("addActivity", userId, <<>>, <<>>, activityType, "",
                         Undefined, ttl, <<>>)
        IN Respond(r, HandleAdd(table, r, ACTIVITY, "activityType", now),
                   CreatedKey(HandleAdd(table, r, ACTIVITY, "activityType", now)))

GetWith(keys) ==
    \E k \in keys :
        LET r == Request("get", k[1], k[2], <<>>, <<>>, "", Undefined,
                         Undefined, <<>>)
        IN Respond(r, HandleGet(table, r), k)

QueryUserWith(userIds, prefixes) ==
    \E userId \in userIds, skPrefix \in prefixes :
        LET r == Request("queryUser", userId, <<>>, skPrefix, <<>>, "",
                         Undefined, Undefined, <<>>)
        IN Respond(r, HandleQueryUser(table, r), NoKey)

QueryBySortWith(prefixes) ==
    \E skPrefix \in prefixes :
        LET r == Request("queryBySort", "", <<>>, skPrefix, <<>>, "",
                         Undefined, Undefined, <<>>)
        IN Respond(r, HandleQueryBySort(table, index, r), NoKey)

UpdateWith(keys, inputs) ==
    \E k \in keys, in \in inputs :
        LET r == Request("update", k[1], k[2], <<>>, <<>>, "", Undefined,
                         in[1], in[2])
        IN Respond(r, HandleUpdate(table, r, now), k)

DeleteWith(keys) ==
    \E k \in keys :
        LET r == Request("delete", k[1], k[2], <<>>, <<>>, "", Undefined,
                         Undefined, <<>>)
        IN Respond(r, HandleDelete(table, r), k)

GetUsersWith(queryTypes, userIds, prefixes) ==
    \E queryType \in queryTypes, userId \in userIds, skPrefix \in prefixes,
       scanOrder \in ScanTable(table) :
        LET r == [Request("GET", userId, <<>>, skPrefix, <<>>, "", Undefined,
                          Undefined, <<>>) EXCEPT !.queryType = queryType]
        IN Respond(r, HandleGET(table, index, r, scanOrder), NoKey)

\* ops: operation values the switch has no case for, "" for none at all
OtherWith(ops) ==
    \E op \in ops :
        LET r == Request(op, "u1", <<>>, <<>>, <<>>, "n1", Undefined,
                         Undefined, <<>>)
        IN Respond(r, HandleOther(table, r), NoKey)

\* ---- update handlers that run concurrently -------------------------------
\* an update handler runs up to its await of updateItem: the request has
\* passed the checks and its UpdateCommand, built at the clock the handler
\* read, is on its way to the database
UpdateStartWith(keys, inputs) ==
    \E k \in keys, in \in inputs :
        LET r == Request("update", k[1], k[2], <<>>, <<>>, "", Undefined,
                         in[1], in[2])
        IN /\ Idle
           /\ Cardinality(pending) < MaxInflight
           /\ r.userId # "" /\ r.sk # <<>>
           /\ ~(Truthy(r.ttl) /\ IsNaNTtl(r.ttl))
           /\ ~NothingToUpdate(r)
           /\ pending' = pending \cup
                 {[id |-> Cardinality(pending) + 1,
                   userId |-> r.userId, sk |-> r.sk,
                   exprs |-> UpdateExpressions(r),
                   values |-> ExpressionAttributeValues(r, now),
                   sent |-> FALSE, status |-> 0]}
           /\ UNCHANGED <<table, index, now, req, resp, old, env>>

\* the database executes one of the commands in flight, in one step, and
\* the handler that sent it answers
UpdateSend ==
    \E c \in pending :
        /\ Idle
        /\ ~c.sent
        /\ table' = IF UpdateException(c.exprs) = ""
                    THEN UpdateItem(table, c.userId, c.sk, c.exprs, c.values)
                    ELSE table
        /\ Cardinality(table') <= MaxItems
        /\ pending' = (pending \ {c}) \cup
              {[c EXCEPT !.sent = TRUE,
                         !.status = IF UpdateException(c.exprs) = ""
                                    THEN 200 ELSE 500]}
        /\ UNCHANGED <<index, now, req, resp, old, env>>

\* ---- the requests of the route ------------------------------------------
CreateProfile ==
    CreateProfileWith(Users \cup {""}, ExplicitSKs \cup {<<>>}, {"", "n1"},
                      TtlInputs)

AddDetail == AddDetailWith(Users \cup {""}, SubTypes \cup {<<>>}, TtlInputs)

AddActivity == AddActivityWith(Users \cup {""}, SubTypes \cup {<<>>}, TtlInputs)

Get == GetWith(Keys \cup {NoKey})

QueryUser == QueryUserWith(Users \cup {""}, Prefixes)

QueryBySort == QueryBySortWith(Prefixes)

Update == UpdateWith(Keys \cup {NoKey}, UpdateInputs)

Delete == DeleteWith(Keys \cup {NoKey})

GetUsers == GetUsersWith({"all", "bySort"}, Users \cup {""}, Prefixes)

UpdateStart == UpdateStartWith(Keys, UpdateInputs)

Other == OtherWith({"", "create"})

\* ---- the database's own steps -------------------------------------------
\* the entries SKIndex holds that the table does not, and the reverse
StaleKeys(t, idx) ==
    (idx \ {IndexKey(i) : i \in t}) \cup ({IndexKey(i) : i \in t} \ idx)

\* a propagation that flips the entry of any key, stale or not
IndexPropagateAny ==
    \E k \in index \cup {IndexKey(i) : i \in table} :
        /\ Idle
        /\ index' = IF k \in index THEN index \ {k} ELSE index \cup {k}
        /\ UNCHANGED <<table, now, req, resp, old, pending, env>>

\* the database brings the entry k of SKIndex up to date with the table
IndexPropagateAt(k) ==
    /\ Idle
    /\ k \in StaleKeys(table, index)
    /\ index' = IF k \in index THEN index \ {k} ELSE index \cup {k}
    /\ UNCHANGED <<table, now, req, resp, old, pending, env>>

IndexPropagate == \E k \in StaleKeys(table, index) : IndexPropagateAt(k)

\* a TTL process set up on createdAt: it removes the item under key k
\* whether or not it carries an expiresAt
TtlDeleteAtCreated(k) ==
    \E i \in table :
        /\ Idle
        /\ db.ttl = "ENABLED"
        /\ KeyOf(i) = k
        /\ table' = table \ {i}
        /\ UNCHANGED <<index, now, req, resp, old, pending, env>>

\* with TTL enabled on expiresAt, the database's TTL process removes the
\* item under key k once its expiresAt has passed
TtlDeleteAt(k) ==
    \E i \in table :
        /\ Idle
        /\ db.ttl = "ENABLED"
        /\ KeyOf(i) = k
        /\ Has(i, "expiresAt")
        /\ i.expiresAt <= NowSec(now)
        /\ table' = table \ {i}
        /\ UNCHANGED <<index, now, req, resp, old, pending, env>>

TtlDelete == \E k \in {KeyOf(i) : i \in table} : TtlDeleteAt(k)

TickTo(max) ==
    /\ Idle
    /\ now < max
    /\ now' = now + 1
    /\ UNCHANGED <<table, index, req, resp, old, pending, env>>

Tick == TickTo(MaxTime)

\* the response has been returned and the handler is gone
Return ==
    /\ ~Idle
    /\ req' = NoRequest
    /\ resp' = NoResp
    /\ old' = {}
    /\ UNCHANGED <<table, index, now, pending, env>>

\* ---- scripts/setup-dynamo.ts --------------------------------------------
MAX_RETRIES == 5

\* a loop that allows one attempt more
MoreRetriesInclusive(i) == i <= MAX_RETRIES

\* the condition of the for loop of waitForDynamoDb
MoreRetries(i) == i < MAX_RETRIES

\* the step after the second ListTables: CreateTable only when the table
\* is not among TableNames
AfterListAlwaysCreate(tableExists) == "create"

AfterList(tableExists) == IF tableExists THEN "ttl" ELSE "create"

\* pc: where the run is; i: the loop counter of waitForDynamoDb; isReady
\* and tableExists: the locals of setupDynamoDB; probes, creates, ttlCalls:
\* the ListTables probes, CreateTable and UpdateTimeToLive commands the
\* run has sent; runs: the runs started
SetupAt(pc, runs) ==
    [pc |-> pc, i |-> 0, isReady |-> FALSE, tableExists |-> FALSE,
     probes |-> 0, creates |-> 0, ttlCalls |-> 0, runs |-> runs]

\* pnpm setup is started; an earlier run, if any, has ended
SetupStart ==
    /\ setup.pc \in {"idle", "done", "exit1"}
    /\ setup.runs < MaxRuns
    /\ setup' = SetupAt("wait", setup.runs + 1)
    /\ UNCHANGED <<table, index, now, req, resp, old, pending, db, ui>>

\* one iteration of waitForDynamoDb: isDynamoDbReady sends ListTables,
\* which the database answers or not
SetupProbe ==
    /\ setup.pc = "wait"
    /\ MoreRetries(setup.i)
    /\ \E answered \in BOOLEAN :
          setup' = IF answered
                   THEN [setup EXCEPT !.probes = @ + 1, !.isReady = TRUE,
                                      !.pc = "list"]
                   ELSE [setup EXCEPT !.probes = @ + 1, !.i = @ + 1]
    /\ UNCHANGED <<table, index, now, req, resp, old, pending, db, ui>>

\* waitForDynamoDb returns false and setupDynamoDB calls process.exit(1)
SetupGiveUp ==
    /\ setup.pc = "wait"
    /\ ~MoreRetries(setup.i)
    /\ setup' = [setup EXCEPT !.pc = "exit1"]
    /\ UNCHANGED <<table, index, now, req, resp, old, pending, db, ui>>

\* ListTables: is the table among TableNames; an error is caught by
\* setupDynamoDB, which calls process.exit(1)
SetupList ==
    /\ setup.pc = "list"
    /\ \E answered \in BOOLEAN :
          setup' = IF answered
                   THEN [setup EXCEPT !.tableExists = db.exists,
                                      !.pc = AfterList(db.exists)]
                   ELSE [setup EXCEPT !.pc = "exit1"]
    /\ UNCHANGED <<table, index, now, req, resp, old, pending, db, ui>>

\* CreateTable with tableParams: the database refuses to create a table
\* that exists, and may fail otherwise; setupDynamoDB catches the error
\* and calls process.exit(1)
SetupCreate ==
    /\ setup.pc = "create"
    /\ \E accepted \in {a \in BOOLEAN : a => ~db.exists} :
          /\ setup' = [setup EXCEPT !.creates = @ + 1,
                          !.pc = IF accepted THEN "ttl" ELSE "exit1"]
          /\ db' = IF accepted THEN [db EXCEPT !.exists = TRUE] ELSE db
    /\ UNCHANGED <<table, index, now, req, resp, old, pending, ui>>

\* enableTTL, DescribeTimeToLive: it returns when TTL is enabled on
\* expiresAt; an error is caught by enableTTL and setup goes on
SetupDescribe ==
    /\ setup.pc = "ttl"
    /\ \E answered \in BOOLEAN :
          setup' = [setup EXCEPT !.pc =
                       IF answered /\ db.ttl # "ENABLED"
                       THEN "update" ELSE "done"]
    /\ UNCHANGED <<table, index, now, req, resp, old, pending, db, ui>>

\* enableTTL, UpdateTimeToLive on expiresAt: an error is caught by
\* enableTTL and setup goes on
SetupUpdateTtl ==
    /\ setup.pc = "update"
    /\ setup' = [setup EXCEPT !.ttlCalls = @ + 1, !.pc = "done"]
    /\ \E accepted \in BOOLEAN :
          db' = IF accepted THEN [db EXCEPT !.ttl = "ENABLED"] ELSE db
    /\ UNCHANGED <<table, index, now, req, resp, old, pending, ui>>

\* ---- components/DynamoDemo.tsx -----------------------------------------
\* the operations after which handleSubmit refreshes the list
Mutating == {"createProfile", "addDetail", "addActivity", "update", "delete"}

\* the Execute button: handleSubmit sets loading and sends its POST
ClickExecute ==
    /\ ~ui.loading
    /\ ui.submits + ui.fetches < MaxRequests
    /\ ui' = [ui EXCEPT !.loading = TRUE, !.submits = @ + 1]
    /\ UNCHANGED <<table, index, now, req, resp, old, pending, db, setup>>

\* the response to the POST arrives and handleSubmit runs to its end: after
\* a successful mutating operation it calls fetchItems, which sets loading
\* and sends its GET, and does not wait for it; its finally block then
\* clears loading
SubmitResponse ==
    /\ ~Idle
    /\ req.op # "GET"
    /\ ui.submits > 0
    /\ ui' = IF resp.status = 200 /\ req.op \in Mutating
             THEN [ui EXCEPT !.submits = @ - 1, !.fetches = @ + 1,
                             !.loading = FALSE]
             ELSE [ui EXCEPT !.submits = @ - 1, !.loading = FALSE]
    /\ req' = NoRequest
    /\ resp' = NoResp
    /\ old' = {}
    /\ UNCHANGED <<table, index, now, pending, db, setup>>

\* the Refresh button: fetchItems sets loading and sends its GET
ClickRefresh ==
    /\ ~ui.loading
    /\ ui.submits + ui.fetches < MaxRequests
    /\ ui' = [ui EXCEPT !.loading = TRUE, !.fetches = @ + 1]
    /\ UNCHANGED <<table, index, now, req, resp, old, pending, db, setup>>

\* the response to a GET arrives and fetchItems runs to its end
FetchResponse ==
    /\ ~Idle
    /\ req.op = "GET"
    /\ ui.fetches > 0
    /\ ui' = [ui EXCEPT !.fetches = @ - 1, !.loading = FALSE]
    /\ req' = NoRequest
    /\ resp' = NoResp
    /\ old' = {}
    /\ UNCHANGED <<table, index, now, pending, db, setup>>

\* ---- initial states ----------------------------------------------------
\* the component has mounted and its first fetchItems has completed
NoRequests == [loading |-> FALSE, submits |-> 0, fetches |-> 0]

\* the application as the README starts it: setup has run, the table
\* exists and is empty, TTL is enabled on expiresAt
Init ==
    /\ table = {}
    /\ index = {}
    /\ now = 0
    /\ req = NoRequest
    /\ resp = NoResp
    /\ old = {}
    /\ pending = {}
    /\ db = [exists |-> TRUE, ttl |-> "ENABLED"]
    /\ setup = [SetupAt("done", 1) EXCEPT !.isReady = TRUE, !.probes = 1,
                                          !.creates = 1, !.ttlCalls = 1]
    /\ ui = NoRequests

\* a fresh database, before setup has ever run
InitSetup ==
    /\ table = {}
    /\ index = {}
    /\ now = 0
    /\ req = NoRequest
    /\ resp = NoResp
    /\ old = {}
    /\ pending = {}
    /\ db = [exists |-> FALSE, ttl |-> "DISABLED"]
    /\ setup = SetupAt("idle", 0)
    /\ ui = NoRequests

Next ==
    \/ CreateProfile
    \/ AddDetail
    \/ AddActivity
    \/ Get
    \/ QueryUser
    \/ QueryBySort
    \/ Update
    \/ Delete
    \/ GetUsers
    \/ Other
    \/ UpdateStart
    \/ UpdateSend
    \/ IndexPropagate
    \/ TtlDelete
    \/ Tick
    \/ Return
    \/ SetupStart
    \/ SetupProbe
    \/ SetupGiveUp
    \/ SetupList
    \/ SetupCreate
    \/ SetupDescribe
    \/ SetupUpdateTtl
    \/ ClickExecute
    \/ SubmitResponse
    \/ ClickRefresh
    \/ FetchResponse

\* every request and every database process
Spec == Init /\ [][Next]_vars

\* ---- the write path: puts and deletes -----------------------------------
StoreProfile == CreateProfileWith(Users, ExplicitSKs \cup {<<>>}, {"n1"}, {Undefined})

StoreDetail == AddDetailWith({"u1"}, {<<"a">>}, {Undefined})

StoreEmail == UpdateWith(Keys, {<<Undefined, [email |-> "e2"]>>})

NextStore ==
    \/ StoreProfile
    \/ StoreDetail
    \/ StoreEmail
    \/ Delete
    \/ Tick
    \/ Return

SpecStore == Init /\ [][NextStore]_vars

\* ---- the update path: one profile key per user --------------------------
UpdateProfile == CreateProfileWith({"u1"}, ExplicitSKs, {"n1"}, {Undefined, "-1"})

NextUpdate ==
    \/ UpdateProfile
    \/ Update
    \/ Tick
    \/ Return

SpecUpdate == Init /\ [][NextUpdate]_vars

\* ---- the create path: items are created, read back and deleted ---------
CreateEmail ==
    CreateProfileEmailWith({"u1"}, ExplicitSKs \cup {<<>>}, {"n1"},
                           {Undefined, ""}, {Undefined, "1"})

CreateDetail ==
    AddDetailDataWith({"u1"}, {<<"a">>}, {Undefined, "1"},
                      {<<>>, [expiresAt |-> 7]})

CreateActivity == AddActivityWith({"u1"}, {<<"a">>}, {Undefined, "1"})

NextCreate ==
    \/ CreateEmail
    \/ CreateDetail
    \/ CreateActivity
    \/ Get
    \/ Delete
    \/ Tick
    \/ Return

SpecCreate == Init /\ [][NextCreate]_vars

\* ---- the concurrent path: updates of one profile overlap in time -------
ConcurrentInputs ==
    {<<Undefined, [email |-> "e2", age |-> 30]>>,
     <<"1", [description |-> "d2"]>>}

ConcurrentProfile ==
    /\ pending = {}
    /\ CreateProfileWith(Users, ExplicitSKs, {"n1"}, {Undefined})

ConcurrentStart ==
    UpdateStartWith({<<u, sk>> : u \in Users, sk \in ExplicitSKs},
                    ConcurrentInputs)

NextConcurrent ==
    \/ ConcurrentProfile
    \/ ConcurrentStart
    \/ UpdateSend
    \/ Get
    \/ Tick
    \/ Return

SpecConcurrent == Init /\ [][NextConcurrent]_vars

\* ---- the validation path: requests with and without what they require ---
ValidateProfile ==
    CreateProfileWith({"", "u1"}, ExplicitSKs \cup {<<>>}, {"", "n1"},
                      {Undefined, "abc"})

ValidateDetail ==
    AddDetailDataWith({"", "u1"}, {<<>>, <<"a">>}, {Undefined, "abc"},
                      {<<>>, [sk |-> <<>>], [sk |-> <<PROFILE, "#", "0">>],
                       [itemType |-> PROFILE]})

ValidateActivity == AddActivityWith({"", "u1"}, {<<>>, <<"a">>}, {Undefined})

ValidateKeys ==
    {<<u, sk>> : u \in {"", "u1"}, sk \in ExplicitSKs \cup {<<>>}}

ValidateGet == GetWith(ValidateKeys)

ValidateUpdate ==
    UpdateWith(ValidateKeys,
               {<<Undefined, <<>>>>, <<Undefined, [email |-> "e2"]>>,
                <<"abc", <<>>>>})

ValidateDelete == DeleteWith(ValidateKeys)

ValidateQueryUser == QueryUserWith({"", "u1"}, {<<>>})

ValidateQueryBySort == QueryBySortWith({<<>>, <<DETAIL>>})

NextValidate ==
    \/ ValidateProfile
    \/ ValidateDetail
    \/ ValidateActivity
    \/ ValidateGet
    \/ ValidateUpdate
    \/ ValidateDelete
    \/ ValidateQueryUser
    \/ ValidateQueryBySort
    \/ Other
    \/ Tick
    \/ Return

SpecValidate == Init /\ [][NextValidate]_vars

\* ---- the read path: details and activities are added, expire, are read --
ReadDetail == AddDetailWith(Users, SubTypes, {Undefined, "-1"})

ReadActivity == AddActivityWith({"u1"}, {<<"a">>}, {Undefined})

ReadUsers == GetUsersWith({"all", "bySort"}, {"", "u1"}, {<<>>, <<DETAIL>>})

NextRead ==
    \/ ReadDetail
    \/ ReadActivity
    \/ Get
    \/ QueryUser
    \/ QueryBySort
    \/ ReadUsers
    \/ TtlDelete
    \/ Tick
    \/ Return

SpecRead == Init /\ [][NextRead]_vars

\* ---- the index path: SKIndex is at most MaxLag entries behind -----------
LagBounded == Cardinality(StaleKeys(table, index)) <= MaxLag

IndexDetail == AddDetailWith(Users, {<<"a">>}, {Undefined, "-1"})

NextIndex ==
    \/ IndexDetail /\ LagBounded'
    \/ Delete /\ LagBounded'
    \/ TtlDelete /\ LagBounded'
    \/ IndexPropagate
    \/ Tick
    \/ Return

SpecIndex == Init /\ [][NextIndex]_vars

\* ---- properties ---------------------------------------------------------
ValidKey(r) == r.userId # "" /\ r.sk # <<>>

Creates == {"createProfile", "addDetail", "addActivity"}

Expired(item) == Has(item, "expiresAt") /\ item.expiresAt < NowSec(now)

\* C1: the table never holds two items with the same (userId, sk), and after
\* a successful create the item the create answered with is the only item
\* under its key, also when the key was taken before
C1_Uniqueness ==
    /\ \A i, j \in table : KeyOf(i) = KeyOf(j) => i = j
    /\ (req.op \in Creates /\ resp.status = 200) =>
          ItemsAt(table, resp.items[1].userId, resp.items[1].sk)
            = {Marshall(resp.items[1])}

C1_Witness ==
    /\ req.op = "createProfile"
    /\ resp.status = 200
    /\ old # {}
    /\ old # {resp.items[1]}

\* C2: an update of a key under which nothing is stored does not succeed and
\* leaves the key without an item
C2_UpdateAbsentFails ==
    (req.op = "update" /\ ValidKey(req) /\ old = {}) =>
        /\ resp.status # 200
        /\ ItemsAt(table, req.userId, req.sk) = {}

\* C3: a createProfile onto a key that already holds an item stores an item
\* that carries the createdAt of the earlier item
C3_CreatedAtPreserved ==
    (req.op = "createProfile" /\ resp.status = 200) =>
        \A o \in old : Has(o, "createdAt") =>
            \A i \in ItemsAt(table, o.userId, o.sk) : i.createdAt = o.createdAt

\* C4: a delete with a key succeeds whether or not the key holds an item,
\* changes nothing when it holds none, and a second delete of the same key
\* succeeds as well and leaves the table the first delete left
C4_DeleteIdempotent ==
    [][(req'.op = "delete" /\ ValidKey(req')) =>
          /\ resp'.status = 200
          /\ table' = {i \in table : KeyOf(i) # <<req'.userId, req'.sk>>}
          /\ (ItemsAt(table, req'.userId, req'.sk) = {} => table' = table)
          /\ HandleDelete(table', req').r.status = 200
          /\ HandleDelete(table', req').t = table']_vars

C4_Witness ==
    /\ req.op = "delete"
    /\ resp.status = 200
    /\ old = {}
    /\ table # {}

C6_ConflictLeavesItem ==
    [][(/\ req'.op = "update"
        /\ ValidKey(req')
        /\ req'.ttl \in {"null", ""}
        /\ "expiresAt" \in DOMAIN req'.body) =>
          /\ resp'.status = 500
          /\ resp'.cause = "PathsOverlap"
          /\ table' = table]_vars

C6_Witness ==
    /\ req.op = "update"
    /\ req.ttl \in {"null", ""}
    /\ "expiresAt" \in DOMAIN req.body
    /\ old # {}
    /\ resp.status = 500
    /\ old \subseteq table

C8_QueryUserExact ==
    (req.op = "queryUser" /\ req.userId # "") =>
        /\ resp.status = 200
        /\ Range(resp.items)
             = {i \in table : /\ i.userId = req.userId
                              /\ BeginsWith(i.sk, req.skPrefix)}
        /\ \A a, b \in 1..Len(resp.items) :
              a < b => StrLess(resp.items[a].sk, resp.items[b].sk)

C8_Witness ==
    /\ req.op = "queryUser"
    /\ req.skPrefix # <<>>
    /\ Len(resp.items) = 1
    /\ \E i \in table : i.userId = req.userId /\ ~BeginsWith(i.sk, req.skPrefix)

\* C9: queryBySort with a prefix succeeds and answers with the items of any
\* user whose sk begins with the prefix, ordered by (sk, userId)
C9_QueryBySortSucceeds ==
    (req.op = "queryBySort" /\ req.skPrefix # <<>>) =>
        /\ resp.status = 200
        /\ resp.items
             = SortByIndexKey({i \in table : BeginsWith(i.sk, req.skPrefix)})

\* the attribute that holds the subtype of an item of the given kind
TypeAttr(kind) == IF kind = DETAIL THEN "detailType" ELSE "activityType"

\* C10: a queryUser with prefix <KIND>#<subtype> answers with exactly the
\* items of the user that have that kind and that subtype
C10_PrefixSelectsSubtype ==
    \A kind \in {DETAIL, ACTIVITY}, s \in SubTypes :
        (req.op = "queryUser" /\ req.userId # ""
           /\ req.skPrefix = <<kind, "#">> \o s) =>
            Range(resp.items)
              = {i \in table : /\ i.userId = req.userId
                               /\ i.itemType = kind
                               /\ Has(i, TypeAttr(kind))
                               /\ i[TypeAttr(kind)] = s}

\* ---- updates -----------------------------------------------------------
\* the attributes an update request names
Named(r) ==
    DOMAIN r.body \cup (IF r.ttl = Undefined THEN {} ELSE {"expiresAt"})

\* C11: an update that sets only name succeeds, the item then carries the
\* new name, the createdAt it had and an updatedAt not earlier than it; an
\* update leaves every attribute it does not name, other than updatedAt, as
\* it was, and no update changes createdAt
C11_UpdateKeepsRest ==
    (req.op = "update" /\ ValidKey(req)) =>
        \A o \in old : \A i \in ItemsAt(table, req.userId, req.sk) :
            /\ (req.ttl = Undefined /\ DOMAIN req.body = {"name"}) =>
                  /\ resp.status = 200
                  /\ HandleGet(table, req).r.items[1].name = req.body.name
                  /\ Has(i, "updatedAt")
                  /\ ~(i.updatedAt < o.createdAt)
            /\ \A a \in (DOMAIN o) \ (Named(req) \cup {"updatedAt"}) :
                  Has(i, a) /\ i[a] = o[a]
            /\ i.createdAt = o.createdAt

\* C12: a successful update answers with the one item stored under the key,
\* which a get of the key returns as well; that item has every removal and
\* every set of the request applied, updatedAt equal to the time of the
\* update, and every other attribute as before
C12_UpdateAtomic ==
    (req.op = "update" /\ resp.status = 200) =>
        /\ Len(resp.items) = 1
        /\ ItemsAt(table, req.userId, req.sk) = {resp.items[1]}
        /\ HandleGet(table, req).r = Ok(resp.items)
        /\ resp.items[1].updatedAt = now
        /\ \A f \in DOMAIN req.body :
              Has(resp.items[1], f) /\ resp.items[1][f] = req.body[f]
        /\ req.ttl \in {"null", ""} => ~Has(resp.items[1], "expiresAt")
        /\ Truthy(req.ttl) =>
              /\ Has(resp.items[1], "expiresAt")
              /\ resp.items[1].expiresAt
                   = calculateTTL(ParseInt(req.ttl), now)
        /\ \A o \in old :
              \A a \in (DOMAIN o) \ (Named(req) \cup {"updatedAt"}) :
                  Has(resp.items[1], a) /\ resp.items[1][a] = o[a]

C12_Witness ==
    /\ req.op = "update"
    /\ resp.status = 200
    /\ req.ttl = "null"
    /\ "email" \in DOMAIN req.body
    /\ \E o \in old : Has(o, "expiresAt") /\ ~Has(o, "email")

\* C13: an update with a key and nothing else is refused with status 400
\* and "No fields to update provided" and leaves the table as it was; an
\* update that carries a ttl or any other field is never refused that way
C13_EmptyUpdateRefused ==
    [][(req'.op = "update" /\ ValidKey(req')) =>
          /\ (req'.ttl = Undefined /\ req'.body = <<>>) =>
                /\ resp'.status = 400
                /\ resp'.error = NoFields
                /\ table' = table
          /\ (req'.ttl # Undefined \/ req'.body # <<>>) =>
                resp'.error # NoFields]_vars

C13_Witness ==
    /\ req.op = "update"
    /\ resp.error = NoFields
    /\ old # {}
    /\ old \subseteq table

\* C14: the update expression never names userId or sk, and an update
\* changes no key: every key stored before is stored after, the only key
\* that can be new is the one the request addresses, and every item under
\* another key is untouched
C14_KeysUntouched ==
    [][(req'.op = "update" /\ ValidKey(req')) =>
          /\ \A n \in 1..Len(UpdateExpressions(req')) :
                UpdateExpressions(req')[n].attr \notin {"userId", "sk"}
          /\ {KeyOf(i) : i \in table} \subseteq {KeyOf(i) : i \in table'}
          /\ {KeyOf(i) : i \in table'}
                \subseteq {KeyOf(i) : i \in table}
                            \cup {<<req'.userId, req'.sk>>}
          /\ \A i \in table :
                KeyOf(i) # <<req'.userId, req'.sk>> => i \in table']_vars

C14_Witness ==
    /\ req.op = "update"
    /\ resp.status = 200
    /\ old # {}
    /\ old # ItemsAt(table, req.userId, req.sk)
    /\ Cardinality(table) = 2

\* ---- puts and expiry ---------------------------------------------------
\* the attributes createProfile stores for a request
ProfileAttrs(r) ==
    {"userId", "sk", "itemType", "createdAt", "name"}
    \cup (IF r.email # Undefined THEN {"email"} ELSE {})
    \cup (IF Truthy(r.ttl) THEN {"expiresAt"} ELSE {})

\* C15: after a successful createProfile the item under the key carries
\* exactly the attributes of the request and those the create sets, with
\* the values of the request, and nothing of the item that was there
C15_PutReplaces ==
    (req.op = "createProfile" /\ resp.status = 200) =>
        \A i \in ItemsAt(table, resp.items[1].userId, resp.items[1].sk) :
            /\ DOMAIN i = ProfileAttrs(req)
            /\ i.name = req.name
            /\ i.createdAt = now
            /\ i.itemType = PROFILE
            /\ Truthy(req.ttl) =>
                  i.expiresAt = calculateTTL(ParseInt(req.ttl), now)

C15_Witness ==
    /\ req.op = "createProfile"
    /\ resp.status = 200
    /\ req.ttl = Undefined
    /\ \E o \in old : /\ Has(o, "updatedAt")
                       /\ Has(o, "expiresAt")
                       /\ Has(o, "email")
    /\ \A i \in ItemsAt(table, resp.items[1].userId, resp.items[1].sk) :
          ~Has(i, "updatedAt") /\ ~Has(i, "expiresAt") /\ ~Has(i, "email")

\* C16: the expiresAt of an item a create or an update has just written is
\* positive and is the time of the request in seconds plus the ttl of the
\* request, or, for an update without ttl, the expiresAt the item had
C16_ExpiresAtDerived ==
    (req.op \in Creates \cup {"update"} /\ resp.status = 200) =>
        \A i \in ItemsAt(table, resp.items[1].userId, resp.items[1].sk) :
            Has(i, "expiresAt") =>
                /\ i.expiresAt > 0
                /\ IF req.ttl = Undefined
                   THEN /\ req.op = "update"
                        /\ \E o \in old : /\ Has(o, "expiresAt")
                                           /\ o.expiresAt = i.expiresAt
                   ELSE /\ Truthy(req.ttl)
                        /\ ~IsNaNTtl(req.ttl)
                        /\ i.expiresAt = calculateTTL(ParseInt(req.ttl), now)

\* C17: an item created without a ttl field carries no expiresAt, and an
\* item created with ttl n carries expiresAt equal to the time of its
\* creation in seconds plus n
C17_TtlOptional ==
    (req.op \in Creates /\ resp.status = 200) =>
        \A i \in ItemsAt(table, resp.items[1].userId, resp.items[1].sk) :
            /\ req.ttl = Undefined => ~Has(i, "expiresAt")
            /\ (Truthy(req.ttl) /\ ~IsNaNTtl(req.ttl)) =>
                  /\ Has(i, "expiresAt")
                  /\ i.expiresAt = calculateTTL(ParseInt(req.ttl), i.createdAt)

\* C18: on an existing item, an update with ttl null or "" removes
\* expiresAt, one with a numeric ttl sets expiresAt to the time in seconds
\* plus the ttl, one with a non-numeric ttl is refused with 400 and writes
\* nothing, and one without ttl leaves expiresAt as it was
C18_TtlUpdate ==
    (req.op = "update" /\ ValidKey(req)) =>
        \A o \in old : \A i \in ItemsAt(table, req.userId, req.sk) :
            /\ req.ttl \in {"null", ""} =>
                  resp.status = 200 /\ ~Has(i, "expiresAt")
            /\ (Truthy(req.ttl) /\ ~IsNaNTtl(req.ttl)) =>
                  /\ resp.status = 200
                  /\ Has(i, "expiresAt")
                  /\ i.expiresAt = calculateTTL(ParseInt(req.ttl), now)
            /\ (Truthy(req.ttl) /\ IsNaNTtl(req.ttl)) =>
                  resp.status = 400 /\ i = o
            /\ req.ttl = Undefined =>
                  /\ Has(i, "expiresAt") = Has(o, "expiresAt")
                  /\ Has(o, "expiresAt") => i.expiresAt = o.expiresAt

\* ---- concurrent updates -------------------------------------------------
\* the attributes a command sets besides updatedAt
Own(c) ==
    {c.exprs[n].attr : n \in 1..Len(c.exprs)} \ {"updatedAt"}

\* the attributes of Own(c) that item i carries with the values of c
Applied(c, i) == {f \in Own(c) : Has(i, f) /\ i[f] = c.values[f]}

\* the items a reader sees under the key of c: the one in the table and
\* the one a get of that key has just answered with
Seen(c) ==
    ItemsAt(table, c.userId, c.sk)
    \cup (IF req.op = "get" /\ req.userId = c.userId /\ req.sk = c.sk
          THEN Range(resp.items) ELSE {})

\* no other command in flight for the key of c sets a field that c sets
Disjoint(c) ==
    \A e \in pending :
        (e.id # c.id /\ e.userId = c.userId /\ e.sk = c.sk) =>
            Own(e) \cap Own(c) = {}

\* C19: for two updates in flight for one key that set fields no other
\* update in flight sets, every item a reader sees carries all or none of
\* the fields of each, and once both have been executed the item carries
\* the fields of both
C19_NoLostUpdate ==
    \A c, d \in pending :
        (c.id # d.id /\ c.userId = d.userId /\ c.sk = d.sk
           /\ Disjoint(c) /\ Disjoint(d)) =>
            /\ \A i \in Seen(c) : Applied(c, i) \in {{}, Own(c)}
            /\ (c.sent /\ d.sent) =>
                  /\ c.status = 200 /\ d.status = 200
                  /\ ItemsAt(table, c.userId, c.sk) # {}
                  /\ \A i \in ItemsAt(table, c.userId, c.sk) :
                        Applied(c, i) = Own(c) /\ Applied(d, i) = Own(d)

\* both executed, in the order opposite to the one they were built in, on
\* an item that existed before
C19_Witness ==
    \E c, d \in pending :
        /\ c.id < d.id
        /\ c.userId = d.userId /\ c.sk = d.sk
        /\ Own(c) \cap Own(d) = {}
        /\ c.sent /\ d.sent
        /\ c.values.updatedAt < d.values.updatedAt
        /\ \E i \in ItemsAt(table, c.userId, c.sk) :
              /\ Has(i, "name")
              /\ i.updatedAt = c.values.updatedAt

\* ---- point reads -------------------------------------------------------
\* the get request for the key of an item
GetOf(item) ==
    Request("get", item.userId, item.sk, <<>>, <<>>, "", Undefined,
            Undefined, <<>>)

\* C20: a get answers with the item stored under the key, or with 404
\* "Item not found" when there is none; right after a successful create a
\* get of the created key answers with the item the create answered with,
\* and right after a delete a get of the deleted key answers 404
C20_GetRoundTrip ==
    /\ (req.op = "get" /\ ValidKey(req)) =>
          IF ItemsAt(table, req.userId, req.sk) = {}
          THEN resp.status = 404 /\ resp.error = "Item not found"
          ELSE resp.status = 200
               /\ Len(resp.items) = 1
               /\ ItemsAt(table, req.userId, req.sk) = {resp.items[1]}
    /\ (req.op \in Creates /\ resp.status = 200) =>
          HandleGet(table, GetOf(resp.items[1])).r = Ok(resp.items)
    /\ (req.op = "delete" /\ ValidKey(req)) =>
          HandleGet(table, req).r.status = 404

\* ---- validation and sort keys -------------------------------------------
\* C21: get, update and delete with an empty userId or sk, and addDetail,
\* addActivity and queryUser with an empty userId, are answered with 400
\* and leave the table as it was; every stored item has a non-empty
\* userId and a non-empty sk
C21_EmptyKeyRejected ==
    [][/\ (req'.op \in {"get", "update", "delete"}
           /\ (req'.userId = "" \/ req'.sk = <<>>)) =>
             (resp'.status = 400 /\ table' = table)
       /\ (req'.op \in {"addDetail", "addActivity", "queryUser"}
           /\ req'.userId = "") =>
             (resp'.status = 400 /\ table' = table)
       /\ \A i \in table' : i.userId # "" /\ i.sk # <<>>]_vars

C21_Witness ==
    /\ req.op = "delete"
    /\ req.userId # ""
    /\ req.sk = <<>>
    /\ resp.status = 400
    /\ \E i \in table : i.userId = req.userId

\* the kind an add request creates
KindOf(op) == IF op = "addDetail" THEN DETAIL ELSE ACTIVITY

\* C22: an item created by addDetail or addActivity has the sk
\* <KIND>#<subtype>#<timestamp> and the itemType of its kind, an item
\* created by createProfile without sk has the sk PROFILE#<timestamp> and
\* itemType PROFILE, and the itemType of every stored item is the first
\* component of its sk
C22_SortKeyShape ==
    /\ (req.op \in {"addDetail", "addActivity"} /\ resp.status = 200) =>
          \A i \in ItemsAt(table, resp.items[1].userId, resp.items[1].sk) :
              /\ i.itemType = KindOf(req.op)
              /\ i.sk = <<KindOf(req.op), "#">> \o req.subType
                          \o <<"#", ISOString(now)>>
    /\ (req.op = "createProfile" /\ req.sk = <<>> /\ resp.status = 200) =>
          \A i \in ItemsAt(table, resp.items[1].userId, resp.items[1].sk) :
              /\ i.itemType = PROFILE
              /\ i.sk = <<PROFILE, "#", ISOString(now)>>
    /\ \A i \in table : Has(i, "itemType") => i.sk[1] = i.itemType

\* C25: a POST request answered with 400 or 404 leaves the table and the
\* index as they were
C25_RejectedWritesNothing ==
    [][(req'.op \notin {"none", "GET"} /\ resp'.status \in {400, 404}) =>
          (table' = table /\ index' = index)]_vars

C25_Witness ==
    /\ req.op = "createProfile"
    /\ req.name # ""
    /\ resp.status = 400
    /\ resp.error = BadTtl
    /\ table # {}

\* C27: a successful addDetail, addActivity or createProfile without sk
\* adds one item to the table and leaves every item that was there
C27_AddNeverOverwrites ==
    [][((req'.op \in {"addDetail", "addActivity"}
           \/ (req'.op = "createProfile" /\ req'.sk = <<>>))
         /\ resp'.status = 200) =>
          /\ table \subseteq table'
          /\ Cardinality(table') = Cardinality(table) + 1]_vars

\* ---- GET and the update expression -------------------------------------
\* C23: a GET with queryType bySort and an skPrefix sends the query on
\* SKIndex, with or without userId; any other GET with a userId answers
\* with that user's items whose sk begins with skPrefix, in sk order; any
\* other GET answers with a scan of the whole table
C23_GetChoosesOneRead ==
    req.op = "GET" =>
        IF req.queryType = "bySort" /\ req.skPrefix # <<>>
        THEN resp = [error |-> "Failed to fetch data from DynamoDB"]
                      @@ HandleQueryBySort(table, index, req).r
        ELSE IF req.userId # ""
        THEN /\ resp.status = 200
             /\ resp.items
                  = SortBySk({i \in table : /\ i.userId = req.userId
                                            /\ BeginsWith(i.sk, req.skPrefix)})
        ELSE /\ resp.status = 200
             /\ Range(resp.items) = table
             /\ Len(resp.items) = Cardinality(table)

C23_Witness ==
    /\ req.op = "GET"
    /\ req.queryType = "bySort"
    /\ req.skPrefix # <<>>
    /\ req.userId # ""
    /\ resp.cause = "KeyConditionNotSupported"
    /\ \E i \in table : i.userId = req.userId

\* C26: the expression of an update that has passed validation names no
\* attribute twice in its SET clause
C26_AssignedOnce ==
    (req.op = "update" /\ ValidKey(req) /\ resp.status # 400) =>
        \A m, n \in 1..Len(UpdateExpressions(req)) :
            (/\ UpdateExpressions(req)[m].kind = "SET"
             /\ UpdateExpressions(req)[n].kind = "SET"
             /\ UpdateExpressions(req)[m].attr
                  = UpdateExpressions(req)[n].attr) => m = n

\* ---- the setup script ---------------------------------------------------
\* requests reach the table only once it exists
SetupDetail == db.exists /\ AddDetailWith({"u1"}, {<<"a">>}, {Undefined})

NextSetup ==
    \/ SetupStart
    \/ SetupProbe
    \/ SetupGiveUp
    \/ SetupList
    \/ SetupCreate
    \/ SetupDescribe
    \/ SetupUpdateTtl
    \/ SetupDetail
    \/ Tick
    \/ Return

\* the script is a running process: its wait loop takes its next step
SpecSetup ==
    InitSetup /\ [][NextSetup]_vars /\ WF_vars(SetupProbe \/ SetupGiveUp)

\* waitForDynamoDb has returned false
WaitFailed == setup.pc = "exit1" /\ ~setup.isReady

C29_Bounded ==
    /\ setup.probes <= MAX_RETRIES
    /\ setup.isReady => setup.probes = setup.i + 1
    /\ WaitFailed =>
         /\ setup.probes = MAX_RETRIES
         /\ setup.creates = 0
         /\ setup.ttlCalls = 0

\* C29: the wait loop of setup terminates; it probes at most MAX_RETRIES
\* times, stops probing at the first probe that is answered, and gives up
\* after MAX_RETRIES unanswered probes; when it gives up the run ends with
\* exit code 1 and has sent no CreateTable and no UpdateTimeToLive
C29_WaitTerminates ==
    /\ []C29_Bounded
    /\ [][(setup.isReady /\ setup'.runs = setup.runs)
            => setup'.probes = setup.probes]_vars
    /\ [][WaitFailed => (setup'.pc \in {"exit1", "wait"}
                           /\ (setup'.pc = "exit1" => setup' = setup))]_vars
    /\ (setup.pc = "wait") ~> (setup.pc # "wait")

C29_Witness ==
    WaitFailed /\ setup.probes = MAX_RETRIES /\ setup.runs = 2 /\ db.exists

C30_Counts ==
    /\ setup.creates <= 1
    /\ setup.ttlCalls <= 1
    /\ setup.pc \in {"ttl", "update", "done"} =>
         setup.creates = (IF setup.tableExists THEN 0 ELSE 1)
    /\ setup.pc = "create" => ~db.exists
    /\ setup.pc = "exit1" => setup.ttlCalls = 0

\* C30: a run that finds the table listed sends no CreateTable and changes
\* neither the table nor its items; a run that does not find it sends one
\* CreateTable; either way the run goes on to the TTL step, which sends
\* UpdateTimeToLive only when TTL is not yet enabled on expiresAt, and ends
\* the run normally whether or not the TTL commands succeed
C30_SetupIdempotent ==
    /\ []C30_Counts
    /\ [][(setup' # setup) => (table' = table /\ index' = index)]_vars
    /\ [][(setup.pc = "list" /\ setup'.pc # "list" /\ db.exists)
            => (setup'.pc \in {"ttl", "exit1"} /\ setup'.creates = 0
                  /\ db' = db)]_vars
    /\ [][(setup.pc = "create" /\ setup'.pc # "create")
            => (setup'.creates = 1
                  /\ setup'.pc = (IF db'.exists THEN "ttl" ELSE "exit1"))]_vars
    /\ [][(setup.pc = "ttl" /\ setup'.pc # "ttl")
            => (setup'.pc \in {"update", "done"}
                  /\ (setup'.pc = "update" => db.ttl # "ENABLED")
                  /\ (db.ttl = "ENABLED" => setup'.pc = "done"))]_vars
    /\ [][(setup.pc = "update" /\ setup'.pc # "update")
            => (setup'.pc = "done" /\ setup'.ttlCalls = 1)]_vars

C30_Witness ==
    /\ setup.runs = 2
    /\ setup.pc = "done"
    /\ setup.tableExists
    /\ setup.creates = 0
    /\ setup.ttlCalls = 0
    /\ db.ttl = "ENABLED"
    /\ table # {}

\* ---- the component and the route ----------------------------------------
\* the route handles the requests the component has in flight
DemoDetail ==
    ui.submits > 0 /\ AddDetailWith(Users \cup {""}, {<<"a">>}, {Undefined})

DemoGet == ui.submits > 0 /\ GetWith({<<"u1", <<DETAIL, "#", "a", "#", "0">>>>})

DemoUsers == ui.fetches > 0 /\ GetUsersWith({"all"}, {""}, {<<>>})

NextDemo ==
    \/ ClickExecute
    \/ ClickRefresh
    \/ DemoDetail
    \/ DemoGet
    \/ DemoUsers
    \/ SubmitResponse
    \/ FetchResponse
    \/ Tick

SpecDemo == Init /\ [][NextDemo]_vars

\* C28: loading is true whenever a request started by handleSubmit or by
\* fetchItems is in flight, the refresh after a mutating operation included
C28_LoadingCoversRequests == (ui.submits + ui.fetches > 0) => ui.loading

\* ---- expiry --------------------------------------------------------------
\* the first run of setup has created the table and comes to enableTTL
InitExpiry ==
    /\ table = {}
    /\ index = {}
    /\ now = 0
    /\ req = NoRequest
    /\ resp = NoResp
    /\ old = {}
    /\ pending = {}
    /\ db = [exists |-> TRUE, ttl |-> "DISABLED"]
    /\ setup = [SetupAt("ttl", 1) EXCEPT !.isReady = TRUE, !.probes = 1,
                                         !.creates = 1]
    /\ ui = NoRequests

\* the keys of the items of this specification
ExpiryKeys ==
    {<<"u1", generateSortKey(DETAIL, <<"a">>, t)>> : t \in 0..MaxClock}

\* requests are sent once setup has run
ExpiryDetail ==
    /\ setup.pc = "done"
    /\ db.exists
    /\ AddDetailWith({"u1"}, {<<"a">>}, {Undefined, "1"})

ExpiryDelete ==
    /\ setup.pc = "done"
    /\ db.exists
    /\ DeleteWith({<<"u1", generateSortKey(DETAIL, <<"a">>, 0)>>})

ExpiryTick == TickTo(MaxClock)

NextExpiry ==
    \/ SetupDescribe
    \/ SetupUpdateTtl
    \/ ExpiryDetail
    \/ ExpiryDelete
    \/ TtlDelete
    \/ IndexPropagate
    \/ ExpiryTick
    \/ Return

\* responses are delivered, and the database's TTL process and index
\* maintenance run beside the requests, which never block them for good
SpecExpiry ==
    /\ InitExpiry
    /\ [][NextExpiry]_vars
    /\ WF_vars(Return)
    /\ \A k \in ExpiryKeys :
          SF_vars(TtlDeleteAt(k)) /\ SF_vars(IndexPropagateAt(<<k[2], k[1]>>))

\* the table holds under key k an item whose expiresAt has been reached
ExpiredAt(k) ==
    \E i \in table :
        KeyOf(i) = k /\ Has(i, "expiresAt") /\ i.expiresAt <= NowSec(now)

\* SKIndex holds an entry for key k although the table holds no such item
Orphan(k) == <<k[2], k[1]>> \in index /\ ItemsAt(table, k[1], k[2]) = {}

====
